---------------------------- MODULE Spec2Model ----------------------------
(***************************************************************************)
(* Model of the AlphaBot fee collection program                            *)
(* (src/solana-contract/src/lib.rs).                                       *)
(*                                                                         *)
(* One invocation of the entry point is one action (Invoke): it decodes    *)
(* the payload, dispatches to the handler and applies the handler's        *)
(* effects on the accounts.  The host primitives the handlers call (the    *)
(* system program's transfer and create_account, the rent sysvar) are      *)
(* modelled with the checks the host applies.  Return models the end of    *)
(* the invocation: the host takes the result and drops the invocation's    *)
(* context.                                                                *)
(*                                                                         *)
(* 64-bit integers are kept at their full width: a u64 is a little-endian  *)
(* tuple of four 16-bit limbs, and the arithmetic is done limb by limb.    *)
(***************************************************************************)
EXTENDS Integers, Sequences, FiniteSets, TLC

(***************************************************************************)
(* u64 arithmetic on limbs.                                                *)
(***************************************************************************)
Base == 256 * 256

NLimbs == 64 \div 16

Limb == 0 .. (Base - 1)

U64Zero == <<0, 0, 0, 0>>

U64Max == <<Base - 1, Base - 1, Base - 1, Base - 1>>

\* A natural number below 2^31 as a u64.
FromNat(n) == <<n % Base, (n \div Base) % Base, 0, 0>>

\* a < b, comparing from the most significant limb.
RECURSIVE LtFrom(_, _, _)
LtFrom(a, b, i) ==
    IF i = 0 THEN FALSE
    ELSE IF a[i] # b[i] THEN a[i] < b[i]
    ELSE LtFrom(a, b, i - 1)

Lt(a, b) == LtFrom(a, b, Len(a))

Le(a, b) == ~Lt(b, a)

\* Limbs of x * k (k a small multiplier), one limb longer than x: the last
\* limb is the part of the product that does not fit the width of x.
RECURSIVE MulFrom(_, _, _, _)
MulFrom(x, k, i, carry) ==
    IF i > Len(x) THEN <<carry>>
    ELSE LET p == x[i] * k + carry
         IN  <<p % Base>> \o MulFrom(x, k, i + 1, p \div Base)

WideMul(x, k) == MulFrom(x, k, 1, 0)

\* Limbs of a + b with the carry out as the last limb.
RECURSIVE AddFrom(_, _, _, _)
AddFrom(a, b, i, carry) ==
    IF i > Len(a) THEN <<carry>>
    ELSE LET s == a[i] + b[i] + carry
         IN  <<s % Base>> \o AddFrom(a, b, i + 1, s \div Base)

WideAdd(a, b) == AddFrom(a, b, 1, 0)

\* Limbs of a - b (modulo 2^64) with the borrow out as the last limb.
RECURSIVE SubFrom(_, _, _, _)
SubFrom(a, b, i, borrow) ==
    IF i > Len(a) THEN <<borrow>>
    ELSE LET d == a[i] - b[i] - borrow
         IN  IF d < 0 THEN <<d + Base>> \o SubFrom(a, b, i + 1, 1)
             ELSE <<d>> \o SubFrom(a, b, i + 1, 0)

WideSub(a, b) == SubFrom(a, b, 1, 0)

Low(w) == SubSeq(w, 1, NLimbs)

\* Quotient of x by a small divisor d > 0: long division from the top limb
\* down, the remainder carried into the limb below; the quotient's limb i is
\* appended after the limbs below it, as the limbs are stored.
RECURSIVE DivFrom(_, _, _, _)
DivFrom(x, d, i, rem) ==
    IF i = 0 THEN <<>>
    ELSE LET cur == rem * Base + x[i]
         IN  DivFrom(x, d, i - 1, cur % d) \o <<cur \div d>>

DivSmall(x, d) == DivFrom(x, d, Len(x), 0)

None == [some |-> FALSE, val |-> U64Zero]

Some(v) == [some |-> TRUE, val |-> v]

\* u64::checked_mul: None when the product does not fit 64 bits.
checked_mul(a, k) ==
    LET w == WideMul(a, k)
    IN  IF w[NLimbs + 1] # 0 THEN None ELSE Some(Low(w))

\* u64::checked_div: None when the divisor is zero.
checked_div(a, d) ==
    IF d = 0 THEN None ELSE Some(DivSmall(a, d))

\* u64::checked_add and checked_sub, as the host uses them on balances.
checked_add(a, b) ==
    LET w == WideAdd(a, b)
    IN  IF w[NLimbs + 1] # 0 THEN None ELSE Some(Low(w))

checked_sub(a, b) ==
    IF Lt(a, b) THEN None ELSE Some(Low(WideSub(a, b)))

(***************************************************************************)
(* Bytes.                                                                  *)
(***************************************************************************)
Byte == 0 .. 255

\* u64::to_le_bytes / i64::to_le_bytes of a non-negative value (borsh writes
\* integers little-endian).
RECURSIVE LeBytesFrom(_, _)
LeBytesFrom(x, i) ==
    IF i > Len(x) THEN <<>>
    ELSE <<x[i] % 256, x[i] \div 256>> \o LeBytesFrom(x, i + 1)

to_le_bytes(x) == LeBytesFrom(x, 1)

\* u64::from_le_bytes of eight bytes.
from_le_bytes(b) ==
    [i \in 1 .. NLimbs |-> b[2 * i - 1] + 256 * b[2 * i]]

RECURSIVE Repeat(_, _)
Repeat(b, n) == IF n = 0 THEN <<>> ELSE <<b>> \o Repeat(b, n - 1)

(***************************************************************************)
(* Addresses.  The accounts of the model: the fee recipient's wallet, a    *)
(* user's wallet, two addresses a stats account can be created at, the     *)
(* system program and the rent sysvar.                                     *)
(***************************************************************************)
FEE_RECIPIENT == "9TkcJVpw9yYkNrTFdhBBq3iYa4r69osa5PfuAwzxS3ht"

User == "User"

Stats1 == "Stats1"

Stats2 == "Stats2"

SystemProgram == "11111111111111111111111111111111"

RentSysvar == "SysvarRent111111111111111111111111111111111"

ProgramId == "AlphaBotProgram"

Wallets == {FEE_RECIPIENT, User, Stats1, Stats2}

Addresses == Wallets \cup {SystemProgram, RentSysvar}

\* str::parse::<Pubkey>: the 32 bytes a base58 address decodes to.  The fee
\* recipient's are those of the constant, the system program's are zeroes;
\* the others are fixed distinct patterns.
PubkeyTable ==
    [a \in Addresses \cup {ProgramId} |->
       CASE a = FEE_RECIPIENT ->
              <<125, 183, 231, 167, 201, 169, 144, 46, 119, 5, 108, 4, 202, 33,
                100, 56, 12, 6, 210, 56, 246, 4, 1, 0, 44, 155, 26, 251, 96, 5,
                24, 131>>
         [] a = User -> Repeat(17, 32)
         [] a = Stats1 -> Repeat(33, 32)
         [] a = Stats2 -> Repeat(34, 32)
         [] a = SystemProgram -> Repeat(0, 32)
         [] a = RentSysvar -> Repeat(6, 32)
         [] OTHER -> Repeat(255, 32)]

PubkeyBytes(a) == PubkeyTable[a]

\* Pubkey comparison is comparison of the 32 bytes.
SameKey(a, b) == PubkeyBytes(a) = PubkeyBytes(b)

\* The address with the given 32 bytes, "?" when it is none of the model's.
PubkeyOf(bytes) ==
    IF \E a \in Addresses : PubkeyBytes(a) = bytes
    THEN CHOOSE a \in Addresses : PubkeyBytes(a) = bytes
    ELSE "?"

(***************************************************************************)
(* Program constants.                                                      *)
(***************************************************************************)
WITHDRAWAL_FEE_PERCENT == 5

TRADING_FEE_PERCENT == 5

FEE_PRECISION == 100

(***************************************************************************)
(* AlphaBotInstruction and its borsh encoding: one byte of variant index,  *)
(* then the variant's fields.                                              *)
(***************************************************************************)
ProcessWithdrawalFee(amount) == [tag |-> "ProcessWithdrawalFee", amount |-> amount]

ProcessTradingFee(amount) == [tag |-> "ProcessTradingFee", amount |-> amount]

InitializeFeeStats == [tag |-> "InitializeFeeStats", amount |-> U64Zero]

Malformed == [tag |-> "Malformed", amount |-> U64Zero]

\* BorshSerialize for AlphaBotInstruction (what a client sends).
Encode(ix) ==
    CASE ix.tag = "ProcessWithdrawalFee" -> <<0>> \o to_le_bytes(ix.amount)
      [] ix.tag = "ProcessTradingFee" -> <<1>> \o to_le_bytes(ix.amount)
      [] OTHER -> <<2>>

\* AlphaBotInstruction::try_from_slice: Malformed stands for the Err the
\* entry point maps to InvalidInstructionData (no variant index, an unknown
\* index, too few bytes for the amount, bytes left over).
try_from_slice(bytes) ==
    IF Len(bytes) = 0 THEN Malformed
    ELSE IF bytes[1] \in {0, 1}
         THEN IF Len(bytes) # 1 + 8 THEN Malformed
              ELSE IF bytes[1] = 0
                   THEN ProcessWithdrawalFee(from_le_bytes(SubSeq(bytes, 2, 9)))
                   ELSE ProcessTradingFee(from_le_bytes(SubSeq(bytes, 2, 9)))
    ELSE IF bytes[1] = 2
         THEN IF Len(bytes) # 1 THEN Malformed ELSE InitializeFeeStats
    ELSE Malformed

(***************************************************************************)
(* FeeStats and Pack.                                                      *)
(***************************************************************************)
LEN == 1 + 32 + 8 + 8 + 8 + 8

\* Mutant of pack_into_slice: the owner written after the counters.
pack_into_slice_reordered(fs) ==
    <<IF fs.is_initialized THEN 1 ELSE 0>>
    \o to_le_bytes(fs.total_withdrawal_fees)
    \o to_le_bytes(fs.total_trading_fees)
    \o to_le_bytes(fs.fee_count)
    \o PubkeyBytes(fs.wallet_address)
    \o to_le_bytes(fs.last_fee_timestamp)

\* Pack::pack_into_slice: the borsh serialization, field by field.
pack_into_slice(fs) ==
    <<IF fs.is_initialized THEN 1 ELSE 0>>
    \o PubkeyBytes(fs.wallet_address)
    \o to_le_bytes(fs.total_withdrawal_fees)
    \o to_le_bytes(fs.total_trading_fees)
    \o to_le_bytes(fs.fee_count)
    \o to_le_bytes(fs.last_fee_timestamp)

CorruptStats ==
    [valid |-> FALSE, is_initialized |-> FALSE, wallet_address |-> "?",
     total_withdrawal_fees |-> U64Zero, total_trading_fees |-> U64Zero,
     fee_count |-> U64Zero, last_fee_timestamp |-> U64Zero]

\* Pack::unpack_from_slice: FeeStats::try_from_slice, any error mapped to
\* InvalidAccountData (valid = FALSE).  Borsh rejects a bool byte other than
\* 0 and 1, a slice that ends early and a slice with bytes left over.
unpack_from_slice(src) ==
    IF Len(src) # LEN \/ src[1] \notin {0, 1} THEN CorruptStats
    ELSE [valid |-> TRUE,
          is_initialized |-> (src[1] = 1),
          wallet_address |-> PubkeyOf(SubSeq(src, 2, 33)),
          total_withdrawal_fees |-> from_le_bytes(SubSeq(src, 34, 41)),
          total_trading_fees |-> from_le_bytes(SubSeq(src, 42, 49)),
          fee_count |-> from_le_bytes(SubSeq(src, 50, 57)),
          last_fee_timestamp |-> from_le_bytes(SubSeq(src, 58, 65))]

(***************************************************************************)
(* State.                                                                  *)
(***************************************************************************)
VARIABLES
    lamports,     \* balance of each account
    data,         \* byte payload of each account
    owner,        \* owning program of each account
    invocations,  \* invocations of the entry point so far
    pc,           \* "idle": between invocations; "returned": one has just ended
    inv           \* the invocation that has just ended: inputs, result, log

vars == <<lamports, data, owner, invocations, pc, inv>>

\* The accounts as an invocation finds them.
Accounts == [lamports |-> lamports, data |-> data, owner |-> owner]

(***************************************************************************)
(* Results.  origin tells the program's own errors from the errors of a    *)
(* host primitive that `?` passes through.                                 *)
(***************************************************************************)
Ok == [ok |-> TRUE, kind |-> "Ok", origin |-> "none"]

Err(kind) == [ok |-> FALSE, kind |-> kind, origin |-> "program"]

HostErr(kind) == [ok |-> FALSE, kind |-> kind, origin |-> "host"]

NoFee == [some |-> FALSE, val |-> U64Zero]

\* What a handler leaves behind: its result, the accounts after it, the
\* EVENT lines it logged, the host primitives it invoked (each with whether
\* the host carried it out) and the fee it computed, if it got that far.
Outcome(result, st, events, calls, fee) ==
    [result |-> result, lamports |-> st.lamports, data |-> st.data,
     owner |-> st.owner, events |-> events, calls |-> calls, fee |-> fee]

(***************************************************************************)
(* Host primitives.                                                        *)
(***************************************************************************)
HostOk(st) == [ok |-> TRUE, err |-> "Ok", st |-> st]

HostRefuses(st, err) == [ok |-> FALSE, err |-> err, st |-> st]

\* The system program's Transfer, reached through invoke: the system
\* program must be among the accounts handed over, the transaction must
\* grant the privileges the instruction asks for (from signs, both are
\* writable; grants stands for what the transaction grants, which the
\* program cannot see), from carries no data and holds the amount, and the
\* credit must fit 64 bits.  The debit is applied before the credit, so a
\* transfer from an account to itself leaves its balance as it was.
HostTransfer(st, from, to, amount, program, grants) ==
    IF ~SameKey(program, SystemProgram) THEN HostRefuses(st, "MissingAccount")
    ELSE IF ~grants THEN HostRefuses(st, "MissingRequiredSignature")
    ELSE IF st.data[from] # <<>> THEN HostRefuses(st, "InvalidArgument")
    ELSE IF Lt(st.lamports[from], amount)
         THEN HostRefuses(st, "ResultWithNegativeLamports")
    ELSE LET debited == [st.lamports EXCEPT ![from] = Low(WideSub(@, amount))]
             credit == checked_add(debited[to], amount)
         IN  IF ~credit.some THEN HostRefuses(st, "ArithmeticOverflow")
             ELSE HostOk([st EXCEPT !.lamports =
                                     [debited EXCEPT ![to] = credit.val]])

\* The system program's CreateAccount, reached through invoke: besides the
\* conditions of a transfer, the new account must sign and must not be in
\* use (no balance, no data, owned by the system program).
HostCreateAccount(st, from, to, amount, space, new_owner, program, grants) ==
    IF ~SameKey(program, SystemProgram) THEN HostRefuses(st, "MissingAccount")
    ELSE IF ~grants THEN HostRefuses(st, "MissingRequiredSignature")
    ELSE IF st.lamports[to] # U64Zero \/ st.data[to] # <<>>
            \/ st.owner[to] # SystemProgram
         THEN HostRefuses(st, "AccountAlreadyInUse")
    ELSE LET allocated == [st EXCEPT !.data[to] = Repeat(0, space),
                                     !.owner[to] = new_owner]
         IN  HostTransfer(allocated, from, to, amount, program, grants)

\* Rent::from_account_info: the account must be the rent sysvar.
RentFromAccountInfo(account) == SameKey(account, RentSysvar)

\* Rent::minimum_balance with the host's default rent parameters: 128 bytes
\* of account overhead, 3480 lamports per byte-year, two years.
minimum_balance(space) == FromNat((128 + space) * 3480 * 2)

\* chrono::Utc::now().timestamp(): the host clock, one second per invocation.
Now == FromNat(1700000000 + invocations)

(***************************************************************************)
(* Handlers.  Each takes the accounts as found (st), the account list, the *)
(* privileges the transaction grants and the clock, and gives its Outcome. *)
(***************************************************************************)
\* Mutant of withdrawal_fee_amount: the fee rounded up instead of down.
withdrawal_fee_amount_round_up(amount) ==
    LET product == checked_mul(amount, WITHDRAWAL_FEE_PERCENT)
        rounded == IF product.some
                   THEN checked_add(product.val, FromNat(FEE_PRECISION - 1))
                   ELSE None
    IN  IF rounded.some THEN checked_div(rounded.val, FEE_PRECISION) ELSE None

\* Mutant of withdrawal_fee_amount: wrapping_mul in place of checked_mul.
withdrawal_fee_amount_wrapping(amount) ==
    checked_div(Low(WideMul(amount, WITHDRAWAL_FEE_PERCENT)), FEE_PRECISION)

\* lines 144-147: amount.checked_mul(5).and_then(|x| x.checked_div(100))
withdrawal_fee_amount(amount) ==
    LET product == checked_mul(amount, WITHDRAWAL_FEE_PERCENT)
    IN  IF product.some THEN checked_div(product.val, FEE_PRECISION) ELSE None

\* Mutant of trading_fee_amount: the division done before the multiplication.
trading_fee_amount_div_first(amount) ==
    LET quotient == checked_div(amount, FEE_PRECISION)
    IN  IF quotient.some THEN checked_mul(quotient.val, TRADING_FEE_PERCENT)
        ELSE None

\* lines 204-207
trading_fee_amount(amount) ==
    LET product == checked_mul(amount, TRADING_FEE_PERCENT)
    IN  IF product.some THEN checked_div(product.val, FEE_PRECISION) ELSE None

\* Mutant of recipient_mismatch: the recipient is not verified.
recipient_mismatch_unchecked(key) == FALSE

\* lines 138 and 198: fee_recipient_account.key != &expected_recipient, the
\* expected recipient being FEE_RECIPIENT parsed as a Pubkey.
recipient_mismatch(key) == ~SameKey(key, FEE_RECIPIENT)

\* Mutant of insufficient_balance: the balance is not verified.
insufficient_balance_unchecked(balance, fee_amount) == FALSE

\* lines 155 and 215: user_account.lamports() < fee_amount
insufficient_balance(balance, fee_amount) == Lt(balance, fee_amount)

\* An EVENT:<KIND>|<account>|<amount>|<timestamp> log line.
Event(kind, account, amount, ts) ==
    [kind |-> kind, account |-> account, amount |-> amount, ts |-> ts]

\* line 179
withdrawal_event(account, amount, ts) == Event("WITHDRAWAL_FEE", account, amount, ts)

\* Mutant of trading_event: the withdrawal handler's line, copied unchanged.
trading_event_wrong_kind(account, amount, ts) ==
    Event("WITHDRAWAL_FEE", account, amount, ts)

\* line 239
trading_event(account, amount, ts) == Event("TRADING_FEE", account, amount, ts)

process_withdrawal_fee(st, accounts, amount, grants, now) ==
    IF Len(accounts) < 3
    THEN Outcome(Err("NotEnoughAccountKeys"), st, <<>>, <<>>, NoFee)
    ELSE
    LET user_account == accounts[1]
        fee_recipient_account == accounts[2]
        system_program == accounts[3]
    IN
    IF recipient_mismatch(fee_recipient_account)
    THEN Outcome(Err("InvalidAccountData"), st, <<>>, <<>>, NoFee)
    ELSE
    LET fee_amount == withdrawal_fee_amount(amount) IN
    IF ~fee_amount.some
    THEN Outcome(Err("ArithmeticOverflow"), st, <<>>, <<>>, NoFee)
    ELSE IF fee_amount.val = U64Zero
    THEN Outcome(Ok, st, <<>>, <<>>, fee_amount)
    ELSE IF insufficient_balance(st.lamports[user_account], fee_amount.val)
    THEN Outcome(Err("InsufficientFunds"), st, <<>>, <<>>, fee_amount)
    ELSE
    LET t == HostTransfer(st, user_account, fee_recipient_account,
                          fee_amount.val, system_program, grants)
        call == [primitive |-> "transfer", ok |-> t.ok]
    IN
    IF ~t.ok THEN Outcome(HostErr(t.err), st, <<>>, <<call>>, fee_amount)
    ELSE Outcome(Ok, t.st,
                 <<withdrawal_event(user_account, fee_amount.val, now)>>,
                 <<call>>, fee_amount)

process_trading_fee(st, accounts, amount, grants, now) ==
    IF Len(accounts) < 3
    THEN Outcome(Err("NotEnoughAccountKeys"), st, <<>>, <<>>, NoFee)
    ELSE
    LET user_account == accounts[1]
        fee_recipient_account == accounts[2]
        system_program == accounts[3]
    IN
    IF recipient_mismatch(fee_recipient_account)
    THEN Outcome(Err("InvalidAccountData"), st, <<>>, <<>>, NoFee)
    ELSE
    LET fee_amount == trading_fee_amount(amount) IN
    IF ~fee_amount.some
    THEN Outcome(Err("ArithmeticOverflow"), st, <<>>, <<>>, NoFee)
    ELSE IF fee_amount.val = U64Zero
    THEN Outcome(Ok, st, <<>>, <<>>, fee_amount)
    ELSE IF insufficient_balance(st.lamports[user_account], fee_amount.val)
    THEN Outcome(Err("InsufficientFunds"), st, <<>>, <<>>, fee_amount)
    ELSE
    LET t == HostTransfer(st, user_account, fee_recipient_account,
                          fee_amount.val, system_program, grants)
        call == [primitive |-> "transfer", ok |-> t.ok]
    IN
    IF ~t.ok THEN Outcome(HostErr(t.err), st, <<>>, <<call>>, fee_amount)
    ELSE Outcome(Ok, t.st,
                 <<trading_event(user_account, fee_amount.val, now)>>,
                 <<call>>, fee_amount)

\* Pack::pack: the destination must have exactly LEN bytes.
pack(fee_stats, dst) ==
    IF Len(dst) # LEN THEN [ok |-> FALSE, bytes |-> dst]
    ELSE [ok |-> TRUE, bytes |-> pack_into_slice(fee_stats)]

\* Mutant of initialize_fee_stats: the result of the allocation is dropped
\* and the record is written whether or not the host allocated the account.
initialize_fee_stats_ignoring_allocation(program_id, st, accounts, grants, now) ==
    IF Len(accounts) < 4
    THEN Outcome(Err("NotEnoughAccountKeys"), st, <<>>, <<>>, NoFee)
    ELSE
    LET user_account == accounts[1]
        fee_stats_account == accounts[2]
        c == HostCreateAccount(st, user_account, fee_stats_account,
                               minimum_balance(LEN), LEN, program_id,
                               accounts[3], grants)
        call == [primitive |-> "create_account", ok |-> c.ok]
        fee_stats == [is_initialized |-> TRUE,
                      wallet_address |-> user_account,
                      total_withdrawal_fees |-> U64Zero,
                      total_trading_fees |-> U64Zero,
                      fee_count |-> U64Zero,
                      last_fee_timestamp |-> now]
        packed == pack(fee_stats, c.st.data[fee_stats_account])
    IN
    IF ~RentFromAccountInfo(accounts[4])
    THEN Outcome(Err("InvalidArgument"), st, <<>>, <<>>, NoFee)
    ELSE IF ~packed.ok
    THEN Outcome(Err("InvalidAccountData"), st, <<>>, <<call>>, NoFee)
    ELSE Outcome(Ok, [c.st EXCEPT !.data[fee_stats_account] = packed.bytes],
                 <<>>, <<call>>, NoFee)

initialize_fee_stats(program_id, st, accounts, grants, now) ==
    IF Len(accounts) < 4
    THEN Outcome(Err("NotEnoughAccountKeys"), st, <<>>, <<>>, NoFee)
    ELSE
    LET user_account == accounts[1]
        fee_stats_account == accounts[2]
        system_program == accounts[3]
        rent_sysvar == accounts[4]
    IN
    IF ~RentFromAccountInfo(rent_sysvar)
    THEN Outcome(Err("InvalidArgument"), st, <<>>, <<>>, NoFee)
    ELSE
    LET space == LEN
        rent_lamports == minimum_balance(space)
        c == HostCreateAccount(st, user_account, fee_stats_account,
                               rent_lamports, space, program_id,
                               system_program, grants)
        call == [primitive |-> "create_account", ok |-> c.ok]
        fee_stats == [is_initialized |-> TRUE,
                      wallet_address |-> user_account,
                      total_withdrawal_fees |-> U64Zero,
                      total_trading_fees |-> U64Zero,
                      fee_count |-> U64Zero,
                      last_fee_timestamp |-> now]
    IN
    IF ~c.ok THEN Outcome(HostErr(c.err), st, <<>>, <<call>>, NoFee)
    ELSE
    LET packed == pack(fee_stats, c.st.data[fee_stats_account]) IN
    \* An error return after the allocation makes the host undo it.
    IF ~packed.ok THEN Outcome(Err("InvalidAccountData"), st, <<>>, <<call>>, NoFee)
    ELSE Outcome(Ok, [c.st EXCEPT !.data[fee_stats_account] = packed.bytes],
                 <<>>, <<call>>, NoFee)

\* Mutant of process_instruction: the decoding error is passed on as it is
\* (an I/O error) instead of being mapped to InvalidInstructionData.
process_instruction_unmapped_error(program_id, st, accounts, instruction_data, grants, now) ==
    LET instruction == try_from_slice(instruction_data) IN
    CASE instruction.tag = "Malformed" ->
           Outcome(Err("BorshIoError"), st, <<>>, <<>>, NoFee)
      [] instruction.tag = "ProcessWithdrawalFee" ->
           process_withdrawal_fee(st, accounts, instruction.amount, grants, now)
      [] instruction.tag = "ProcessTradingFee" ->
           process_trading_fee(st, accounts, instruction.amount, grants, now)
      [] instruction.tag = "InitializeFeeStats" ->
           initialize_fee_stats(program_id, st, accounts, grants, now)

process_instruction(program_id, st, accounts, instruction_data, grants, now) ==
    LET instruction == try_from_slice(instruction_data) IN
    CASE instruction.tag = "Malformed" ->
           Outcome(Err("InvalidInstructionData"), st, <<>>, <<>>, NoFee)
      [] instruction.tag = "ProcessWithdrawalFee" ->
           process_withdrawal_fee(st, accounts, instruction.amount, grants, now)
      [] instruction.tag = "ProcessTradingFee" ->
           process_trading_fee(st, accounts, instruction.amount, grants, now)
      [] instruction.tag = "InitializeFeeStats" ->
           initialize_fee_stats(program_id, st, accounts, grants, now)

(***************************************************************************)
(* Inputs of an invocation.                                                *)
(***************************************************************************)
MaxInvocations == 2

MaxAccounts == 4

\* floor((2^64 - 1) / 5): the largest amount whose product by 5 fits 64 bits.
MaxNoOverflow == <<13107, 13107, 13107, 13107>>

Amounts ==
    {U64Zero, FromNat(19), FromNat(20), FromNat(1000), MaxNoOverflow,
     <<13108, 13107, 13107, 13107>>, U64Max}

\* Payloads a client can send: every well-formed instruction over Amounts,
\* and malformed ones (empty, unknown variant, amount cut short, bytes left
\* over after a complete instruction).
Payloads ==
    {Encode(ProcessWithdrawalFee(a)) : a \in Amounts}
    \cup {Encode(ProcessTradingFee(a)) : a \in Amounts}
    \cup {Encode(InitializeFeeStats)}
    \cup {<<>>, <<3>>, <<0, 232, 3>>, <<2, 0>>,
          Encode(ProcessTradingFee(FromNat(1000))) \o <<0>>}

\* The accounts a client may put at each position of the list.
Candidates(i) ==
    CASE i = 1 -> {User, FEE_RECIPIENT, Stats1}
      [] i = 2 -> {FEE_RECIPIENT, User, Stats1, Stats2}
      [] i = 3 -> {SystemProgram, User}
      [] i = 4 -> {RentSysvar, User}
      [] OTHER -> {User}

AccountLists ==
    UNION {{l \in [1 .. n -> Addresses] : \A i \in 1 .. n : l[i] \in Candidates(i)}
           : n \in 0 .. MaxAccounts}

NoInvocation ==
    [instruction_data |-> <<>>, accounts |-> <<>>, result |-> Ok,
     events |-> <<>>, calls |-> <<>>, fee |-> NoFee, now |-> U64Zero,
     before |-> [lamports |-> <<>>, data |-> <<>>, owner |-> <<>>]]

(***************************************************************************)
(* The specification.                                                      *)
(***************************************************************************)
\* Before the first invocation: the user's wallet is funded (with too little
\* for any fee above 40, or with enough for two stats accounts and fees),
\* the fee recipient's wallet and the stats addresses do not exist yet.
Init ==
    /\ \E funds \in {FromNat(40), Low(WideAdd(Low(WideMul(minimum_balance(LEN), 2)),
                                               FromNat(100)))} :
          lamports = [a \in Addresses |->
                        IF a = User THEN funds
                        ELSE IF a \in {SystemProgram, RentSysvar} THEN FromNat(1)
                        ELSE U64Zero]
    /\ data = [a \in Addresses |->
                 IF a \in {SystemProgram, RentSysvar} THEN <<1>> ELSE <<>>]
    /\ owner = [a \in Addresses |->
                  IF a = RentSysvar THEN "Sysvar"
                  ELSE IF a = SystemProgram THEN "NativeLoader"
                  ELSE SystemProgram]
    /\ invocations = 0
    /\ pc = "idle"
    /\ inv = NoInvocation

\* One invocation of the entry point, from the payload to the result.
Invoke ==
    /\ pc = "idle"
    /\ invocations < MaxInvocations
    /\ \E instruction_data \in Payloads, accounts \in AccountLists,
          grants \in BOOLEAN :
          \E out \in {process_instruction(ProgramId, Accounts, accounts,
                                          instruction_data, grants, Now)} :
              /\ lamports' = out.lamports
              /\ data' = out.data
              /\ owner' = out.owner
              /\ inv' = [instruction_data |-> instruction_data,
                         accounts |-> accounts,
                         result |-> out.result,
                         events |-> out.events,
                         calls |-> out.calls,
                         fee |-> out.fee,
                         now |-> Now,
                         before |-> Accounts]
    /\ invocations' = invocations + 1
    /\ pc' = "returned"

\* The invocation is over: the host has the result, the context is dropped.
Return ==
    /\ pc = "returned"
    /\ pc' = "idle"
    /\ inv' = NoInvocation
    /\ UNCHANGED <<lamports, data, owner, invocations>>

Next == Invoke \/ Return

Spec == Init /\ [][Next]_vars

TypeOK ==
    /\ pc \in {"idle", "returned"}
    /\ invocations \in 0 .. MaxInvocations
    /\ \A a \in Addresses : Len(lamports[a]) = NLimbs

(***************************************************************************)
(* The fee computation on its own: the amount is drawn from a wide sample  *)
(* of the 64-bit range and either handler's computation is applied to it.  *)
(***************************************************************************)
MaxSmallAmount == 120

LimbSamples == {0, 1, 13107, 13108, Base - 1}

FeeInputs ==
    {FromNat(n) : n \in 0 .. MaxSmallAmount}
    \cup {<<a, b, c, d>> : a \in LimbSamples \cup {19, 20, 13106},
                           b \in LimbSamples, c \in LimbSamples,
                           d \in LimbSamples}

InitFee ==
    /\ lamports = [a \in Addresses |-> U64Zero]
    /\ data = [a \in Addresses |-> <<>>]
    /\ owner = [a \in Addresses |-> SystemProgram]
    /\ invocations = 0
    /\ pc = "fee_input"
    /\ \E tag \in {"ProcessWithdrawalFee", "ProcessTradingFee"},
          amount \in FeeInputs :
          inv = [tag |-> tag, amount |-> amount, fee |-> NoFee]

ComputeFee ==
    /\ pc = "fee_input"
    /\ inv' = [inv EXCEPT !.fee =
                 IF inv.tag = "ProcessWithdrawalFee"
                 THEN withdrawal_fee_amount(inv.amount)
                 ELSE trading_fee_amount(inv.amount)]
    /\ pc' = "fee_done"
    /\ UNCHANGED <<lamports, data, owner, invocations>>

NextFee == ComputeFee

FeeSpec == InitFee /\ [][NextFee]_vars

(***************************************************************************)
(* Vocabulary of the properties.                                           *)
(***************************************************************************)
\* x extended with zero limbs to n limbs.
Pad(x, n) == x \o Repeat(0, n - Len(x))

\* f = floor(a * 5 / 100), stated without dividing: 100 f <= 5 a < 100 f + 100,
\* in arithmetic wide enough that nothing overflows.
IsFivePercentFloor(f, a) ==
    LET hundred_f == Pad(WideMul(f, 100), NLimbs + 2)
        five_a == Pad(WideMul(a, 5), NLimbs + 2)
        upper == SubSeq(WideAdd(hundred_f, Pad(<<100>>, NLimbs + 2)), 1, NLimbs + 2)
    IN  Le(hundred_f, five_a) /\ Lt(five_a, upper)

\* amount * 5 < 2^64
FitsTimesFive(amount) == Le(amount, MaxNoOverflow)

\* C3: for every amount for which amount * 5 does not overflow 64 bits, the
\* fee either handler computes is floor(amount * 5 / 100), and it never
\* exceeds the amount.
C3_FeeIsFloorOfFivePercent ==
    (pc = "fee_done" /\ FitsTimesFive(inv.amount))
        => /\ inv.fee.some
           /\ IsFivePercentFloor(inv.fee.val, inv.amount)
           /\ Le(inv.fee.val, inv.amount)

C3_Witness ==
    /\ pc = "fee_done"
    /\ inv.tag = "ProcessTradingFee"
    /\ inv.amount = MaxNoOverflow
    /\ inv.fee = Some(<<36700, 62914, 23592, 655>>)

Returned == pc = "returned"

\* The instruction the ended invocation carried.
Ix == try_from_slice(inv.instruction_data)

IsFeeInvocation ==
    Returned /\ Ix.tag \in {"ProcessWithdrawalFee", "ProcessTradingFee"}

IsInitInvocation == Returned /\ Ix.tag = "InitializeFeeStats"

\* The account at position [1] is the hardcoded fee recipient.
RecipientIsHardcoded ==
    Len(inv.accounts) >= 2 /\ inv.accounts[2] = FEE_RECIPIENT

\* The list holds the accounts of the fee instructions' positional contract.
HasFeeAccounts == Len(inv.accounts) >= 3

Payer == inv.accounts[1]

NothingChanged ==
    /\ lamports = inv.before.lamports
    /\ data = inv.before.data
    /\ owner = inv.before.owner

NoTransferAttempted == inv.calls = <<>>

EventKind ==
    IF Ix.tag = "ProcessWithdrawalFee" THEN "WITHDRAWAL_FEE" ELSE "TRADING_FEE"

\* The record held in an account, as a reader decodes it.
Record(bytes) == unpack_from_slice(bytes)

IsInitializedRecord(bytes) ==
    LET r == Record(bytes) IN r.valid /\ r.is_initialized

(***************************************************************************)
(* C1                                                                      *)
(***************************************************************************)
\* C1 as claimed: every fee invocation whose account at position [1] is not
\* the hardcoded recipient fails with InvalidAccountData and changes no
\* balance, whatever the amount and the payer's balance.
C1_AsClaimed ==
    (IsFeeInvocation /\ Len(inv.accounts) >= 2 /\ inv.accounts[2] # FEE_RECIPIENT)
        => (inv.result = Err("InvalidAccountData") /\ NothingChanged)

\* C1 as amended: a fee invocation whose account at position [1] is not the
\* hardcoded recipient fails with InvalidAccountData when the list holds at
\* least three accounts, and with NotEnoughAccountKeys when it holds two; in
\* both cases nothing is transferred and no balance changes.
C1_RecipientMismatchRejected ==
    (IsFeeInvocation /\ Len(inv.accounts) >= 2 /\ inv.accounts[2] # FEE_RECIPIENT)
        => /\ inv.result = IF HasFeeAccounts THEN Err("InvalidAccountData")
                           ELSE Err("NotEnoughAccountKeys")
           /\ NoTransferAttempted
           /\ inv.events = <<>>
           /\ NothingChanged

\* A mismatching recipient is rejected although the amount overflows the fee
\* multiplication and the payer could pay.
C1_Witness ==
    /\ IsFeeInvocation
    /\ HasFeeAccounts
    /\ inv.accounts[2] = Stats1
    /\ Payer = User
    /\ ~FitsTimesFive(Ix.amount)
    /\ inv.result = Err("InvalidAccountData")

(***************************************************************************)
(* C2                                                                      *)
(***************************************************************************)
\* The case of C2: the hardcoded recipient, a nonzero fee F that is
\* floor(amount * 5 / 100), a payer holding at least F, and a host transfer
\* that was carried out.
C2_Case ==
    /\ IsFeeInvocation
    /\ RecipientIsHardcoded
    /\ inv.fee.some
    /\ inv.fee.val # U64Zero
    /\ IsFivePercentFloor(inv.fee.val, Ix.amount)
    /\ Le(inv.fee.val, inv.before.lamports[Payer])
    /\ inv.calls = <<[primitive |-> "transfer", ok |-> TRUE]>>

C2_OneEvent ==
    /\ Len(inv.events) = 1
    /\ inv.events[1].kind = EventKind
    /\ inv.events[1].account = Payer
    /\ inv.events[1].amount = inv.fee.val

\* No EVENT line comes from an invocation that fails or whose fee is zero.
C2_NoEventOtherwise ==
    (Returned /\ (~inv.result.ok \/ ~inv.fee.some \/ inv.fee.val = U64Zero))
        => inv.events = <<>>

\* C2 as claimed: in that case the invocation succeeds, the payer's balance
\* is lower by exactly F, the recipient's higher by exactly F, no other
\* balance changes and exactly one EVENT line with the kind, the payer and F
\* is logged; failing and zero-fee invocations log no EVENT line.
C2_AsClaimed ==
    /\ C2_Case =>
         /\ inv.result = Ok
         /\ checked_sub(inv.before.lamports[Payer], inv.fee.val) = Some(lamports[Payer])
         /\ checked_add(inv.before.lamports[FEE_RECIPIENT], inv.fee.val)
              = Some(lamports[FEE_RECIPIENT])
         /\ \A a \in Addresses \ {Payer, FEE_RECIPIENT} :
              lamports[a] = inv.before.lamports[a]
         /\ C2_OneEvent
    /\ C2_NoEventOtherwise

\* C2 as amended: the same, for a payer other than the fee recipient; when
\* the payer is the fee recipient itself the invocation succeeds and logs
\* the EVENT line too, but the transfer is from the account to itself and
\* every balance is unchanged.
C2_FeeTransferred ==
    /\ C2_Case =>
         /\ inv.result = Ok
         /\ C2_OneEvent
         /\ data = inv.before.data
         /\ owner = inv.before.owner
         /\ \A a \in Addresses \ {Payer, FEE_RECIPIENT} :
              lamports[a] = inv.before.lamports[a]
         /\ IF Payer # FEE_RECIPIENT
            THEN /\ checked_sub(inv.before.lamports[Payer], inv.fee.val)
                      = Some(lamports[Payer])
                 /\ checked_add(inv.before.lamports[FEE_RECIPIENT], inv.fee.val)
                      = Some(lamports[FEE_RECIPIENT])
            ELSE lamports = inv.before.lamports
    /\ C2_NoEventOtherwise

\* ProcessTradingFee{1000} by the funded user: 50 lamports move.
C2_Witness ==
    /\ C2_Case
    /\ Ix = ProcessTradingFee(FromNat(1000))
    /\ Payer = User
    /\ inv.fee.val = FromNat(50)
    /\ checked_add(lamports[User], FromNat(50)) = Some(inv.before.lamports[User])
    /\ checked_add(inv.before.lamports[FEE_RECIPIENT], FromNat(50))
         = Some(lamports[FEE_RECIPIENT])
    /\ inv.events = <<trading_event(User, FromNat(50), inv.now)>>

(***************************************************************************)
(* C4                                                                      *)
(***************************************************************************)
C4_ZeroFeeOutcome ==
    /\ inv.fee = Some(U64Zero)
    /\ inv.result = Ok
    /\ NoTransferAttempted
    /\ NothingChanged
    /\ inv.events = <<>>

\* C4 as claimed: every fee invocation with amount < 20 computes a fee of 0
\* and succeeds with no transfer attempted, no balance changed and no EVENT
\* line.
C4_AsClaimed ==
    (IsFeeInvocation /\ Lt(Ix.amount, FromNat(20))) => C4_ZeroFeeOutcome

\* C4 as amended: so does every fee invocation with amount < 20 that holds
\* at least three accounts with the hardcoded recipient at position [1]
\* (the account checks come before the fee computation).
C4_ZeroFeeShortCircuit ==
    (IsFeeInvocation /\ Lt(Ix.amount, FromNat(20))
       /\ HasFeeAccounts /\ RecipientIsHardcoded)
        => C4_ZeroFeeOutcome

\* Amount 19 from a payer with no balance at all, without the privileges a
\* transfer would need.
C4_Witness ==
    /\ IsFeeInvocation
    /\ Ix.amount = FromNat(19)
    /\ HasFeeAccounts /\ RecipientIsHardcoded
    /\ inv.before.lamports[Payer] = U64Zero
    /\ inv.accounts[3] # SystemProgram
    /\ inv.result = Ok

(***************************************************************************)
(* C5                                                                      *)
(***************************************************************************)
C5_OverflowOutcome ==
    /\ inv.result = Err("ArithmeticOverflow")
    /\ NoTransferAttempted
    /\ NothingChanged

\* C5 as claimed: every fee invocation with the hardcoded recipient whose
\* amount times 5 does not fit 64 bits fails with ArithmeticOverflow, with no
\* transfer and no balance change; for a smaller amount the computation
\* reports no overflow.
C5_AsClaimed ==
    (IsFeeInvocation /\ RecipientIsHardcoded)
        => IF FitsTimesFive(Ix.amount)
           THEN inv.result # Err("ArithmeticOverflow")
           ELSE C5_OverflowOutcome

\* C5 as amended: the same for invocations that hold at least three
\* accounts; with two accounts the invocation fails with
\* NotEnoughAccountKeys before the fee is computed.
C5_OverflowDetected ==
    (IsFeeInvocation /\ RecipientIsHardcoded)
        => IF FitsTimesFive(Ix.amount)
           THEN inv.result # Err("ArithmeticOverflow")
           ELSE IF HasFeeAccounts THEN C5_OverflowOutcome
           ELSE inv.result = Err("NotEnoughAccountKeys") /\ NothingChanged

\* The smallest overflowing amount, floor((2^64 - 1) / 5) + 1.
C5_Witness ==
    /\ IsFeeInvocation
    /\ RecipientIsHardcoded /\ HasFeeAccounts
    /\ Ix.amount = <<13108, 13107, 13107, 13107>>
    /\ inv.result = Err("ArithmeticOverflow")

(***************************************************************************)
(* C6                                                                      *)
(***************************************************************************)
\* floor(amount * 5 / 100) exceeds the balance b: 5 amount >= 100 (b + 1).
FeeExceeds(amount, b) ==
    Le(WideMul(WideAdd(b, FromNat(1)), 100), Pad(WideMul(amount, 5), NLimbs + 2))

C6_InsufficientOutcome ==
    /\ inv.result = Err("InsufficientFunds")
    /\ NoTransferAttempted
    /\ NothingChanged

StatsAccount == inv.accounts[2]

\* An InitializeFeeStats invocation on a stats account that did not exist,
\* whose allocation the host carried out (the payer could fund it).
C7_Case ==
    /\ IsInitInvocation
    /\ Len(inv.accounts) >= 4
    /\ inv.before.lamports[StatsAccount] = U64Zero
    /\ inv.before.data[StatsAccount] = <<>>
    /\ inv.before.owner[StatsAccount] = SystemProgram
    /\ inv.calls = <<[primitive |-> "create_account", ok |-> TRUE]>>

C8_Step ==
    /\ \A a \in Addresses :
          IsInitializedRecord(data[a])
              => /\ data'[a] = data[a]
                 /\ owner'[a] = owner[a]
                 /\ Record(data'[a]) = Record(data[a])
    /\ (pc' = "returned" /\ Ix'.tag = "InitializeFeeStats"
          /\ Len(inv'.accounts) >= 2
          /\ IsInitializedRecord(data[inv'.accounts[2]]))
        => /\ ~inv'.result.ok
           /\ inv'.calls \in {<<>>, <<[primitive |-> "create_account", ok |-> FALSE]>>}
           /\ inv'.calls # <<>> => inv'.result.origin = "host"

\* C8: once a FeeRecord is initialized no invocation of any of the three
\* instructions changes it (flag, owner, counters, timestamp); a second
\* InitializeFeeStats on its account fails and leaves it unclobbered, and
\* the fee handlers write no stats account.
C8_RecordNeverChanges == [][C8_Step]_vars

\* Another payer's InitializeFeeStats on an account that already holds the
\* user's record, refused by the host.
C8_Witness ==
    /\ IsInitInvocation
    /\ Len(inv.accounts) >= 4
    /\ IsInitializedRecord(inv.before.data[StatsAccount])
    /\ Record(inv.before.data[StatsAccount]).wallet_address = User
    /\ Payer = FEE_RECIPIENT
    /\ inv.result = HostErr("AccountAlreadyInUse")
    /\ Record(data[StatsAccount]).wallet_address = User

(***************************************************************************)
(* C9                                                                      *)
(***************************************************************************)
\* C9 as claimed: no two initialized stats accounts record the same owner.
C9_AsClaimed ==
    \A a, b \in Addresses :
        (a # b /\ IsInitializedRecord(data[a]) /\ IsInitializedRecord(data[b]))
            => Record(data[a]).wallet_address # Record(data[b]).wallet_address

(***************************************************************************)
(* C10                                                                     *)
(***************************************************************************)
\* The failure came out of a host primitive the handler invoked.
PassedThroughFromHost ==
    /\ inv.result.origin = "host"
    /\ inv.calls # <<>>
    /\ ~inv.calls[Len(inv.calls)].ok

SpecErrorKinds ==
    {"InvalidInstructionData", "InvalidAccountData", "ArithmeticOverflow",
     "InsufficientFunds"}

\* C10 as claimed: a failing invocation, whatever the payload and the
\* account list, reports one of the four error kinds or an error passed
\* through from a host primitive, and has no effect.
C10_AsClaimed ==
    (Returned /\ ~inv.result.ok)
        => /\ \/ PassedThroughFromHost
              \/ inv.result.origin = "program" /\ inv.result.kind \in SpecErrorKinds
           /\ NothingChanged

\* C10 as amended: a failing invocation reports one of the four error
\* kinds, NotEnoughAccountKeys (the account list is shorter than the
\* instruction's), InvalidArgument (the account at position [3] of
\* InitializeFeeStats is not the rent sysvar) or an error passed through
\* from a host primitive, and has no effect.
C10_ErrorKinds ==
    (Returned /\ ~inv.result.ok)
        => /\ \/ PassedThroughFromHost
              \/ /\ inv.result.origin = "program"
                 /\ inv.result.kind \in SpecErrorKinds
                 /\ inv.calls = <<>>
              \/ /\ inv.result = Err("NotEnoughAccountKeys")
                 /\ Len(inv.accounts) < (IF IsInitInvocation THEN 4 ELSE 3)
              \/ /\ inv.result = Err("InvalidArgument")
                 /\ IsInitInvocation
                 /\ inv.accounts[4] # RentSysvar
           /\ inv.result = Err("InvalidInstructionData") <=> Ix = Malformed
           /\ NothingChanged

\* A fee instruction with the right recipient and one account too few.
C10_Witness ==
    /\ IsFeeInvocation
    /\ inv.accounts = <<User, FEE_RECIPIENT>>
    /\ inv.result = Err("NotEnoughAccountKeys")

=============================================================================
